---- MODULE Spec2Model ----
(***************************************************************************)
(* Model of the scoring / recommendation core of weixuebaohes:             *)
(*   TrustScoreEngine          (src/src/services/GamePublisher.ts)         *)
(*   AgeRecommendationEngine   (src/unnamed/part_002)                      *)
(* Both engines are stateless; every public method is one action that      *)
(* draws its arguments, runs the method and leaves the call record         *)
(* (op, args, ret, local) in the state.  Return goes back to idle.         *)
(*                                                                         *)
(* JavaScript numbers are modelled as exact rationals <<n, d>> in lowest   *)
(* terms with d > 0.  An optional value is <<>> (undefined) or <<v>>.      *)
(* A call either returns, [tag |-> "ok", val |-> v], or throws,            *)
(* [tag |-> "throw", val |-> "TypeError"].                                 *)
(*                                                                         *)
(* The application services keep state: the feedback queue                 *)
(* (FeedbackManager), the persisted favourites (FavoriteManager and the    *)
(* useAppState reducer) and the game page (GameExperience).  Each has its  *)
(* own variable and its own specification.                                 *)
(***************************************************************************)
EXTENDS Integers, Sequences, FiniteSets, TLC

VARIABLES pc, op, args, ret, local, feedback, favorites, experience

vars == <<pc, op, args, ret, local, feedback, favorites, experience>>

\* the call record of the engines, and the state of the application services
engineVars == <<pc, op, args, ret, local>>

appVars == <<feedback, favorites, experience>>

(***************************************************************************)
(* Bounds of the model.                                                    *)
(***************************************************************************)
MaxCount == 2
MaxScoreK == 12000
MaxHist == 4
MaxGames == 3
MaxLimit == 4
NowHours == 2400
MaxBandAge == 8
MaxUserAge == 12
MaxClockSteps == 4
MaxKeyLen == 4
MaxChildAge == 16
MaxRatingTenths == 50
MaxRatings == 160
MaxInserts == 3
MaxFeedback == 3
MaxSyncs == 2

(***************************************************************************)
(* Exact rational arithmetic.                                              *)
(***************************************************************************)
Abs(n) == IF n < 0 THEN -n ELSE n

RECURSIVE GCD(_, _)
GCD(a, b) == IF b = 0 THEN a ELSE GCD(b, a % b)

Rat(n, d) ==
  LET g == GCD(Abs(n), Abs(d))
      s == IF d < 0 THEN -1 ELSE 1
  IN  <<(s * n) \div g, (s * d) \div g>>

RInt(n) == <<n, 1>>
RAdd(x, y) == Rat(x[1] * y[2] + y[1] * x[2], x[2] * y[2])
RSub(x, y) == Rat(x[1] * y[2] - y[1] * x[2], x[2] * y[2])
RMul(x, y) == Rat(x[1] * y[1], x[2] * y[2])
RDiv(x, y) == Rat(x[1] * y[2], x[2] * y[1])
RLe(x, y) == x[1] * y[2] <= y[1] * x[2]
RLt(x, y) == x[1] * y[2] < y[1] * x[2]
RGe(x, y) == RLe(y, x)
RGt(x, y) == RLt(y, x)
RMin(x, y) == IF RLe(x, y) THEN x ELSE y
RMax(x, y) == IF RGe(x, y) THEN x ELSE y

(***************************************************************************)
(* JavaScript values: optional values, property lookup, call outcomes.     *)
(***************************************************************************)
Undefined == <<>>
Some(v) == <<v>>
Get(obj, key) == IF key \in DOMAIN obj THEN Some(obj[key]) ELSE Undefined

Ok(v) == [tag |-> "ok", val |-> v]
Throw(e) == [tag |-> "throw", val |-> e]

(***************************************************************************)
(* Data model (src/src/types/game.ts).                                     *)
(***************************************************************************)
SecurityStatus ==
  [hasAds : BOOLEAN, hasTracking : BOOLEAN,
   hasExternalLinks : BOOLEAN, contentModerated : BOOLEAN]

GameStats ==
  [likes : 0..MaxCount, opens : 0..MaxCount, reports : 0..MaxCount,
   avgPlayTime : {0, 30, 90}]

\* The TrustBadge type carries the flags under "securityCheck"; the engine
\* reads "securityChecks".  Game data arrives as unvalidated JSON, so an item
\* can carry the record under either key.
FlagKeys == {"securityCheck", "securityChecks"}

TrustBadge(key, flags) ==
  [level |-> "verified", parentRating |-> 45, totalRatings |-> 20] @@ (key :> flags)

AgeBands == {<<3, 6>>, <<6, 9>>, <<9, 12>>, <<12, 99>>}

\* lastPlayed is optional: absent, or a timestamp (in hours) not after now.
LastPlayedHours == {NowHours - a : a \in {0, 168, 169, 720, 721, 2160, 2161, NowHours}}

GameCard(id, ageRange, stats, key, flags) ==
  [id |-> id, ageRange |-> ageRange, stats |-> stats,
   trustBadge |-> TrustBadge(key, flags)]

WithLastPlayed(game, t) == game @@ [lastPlayed |-> t]

(***************************************************************************)
(* TrustScoreEngine (src/src/services/GamePublisher.ts).                   *)
(***************************************************************************)
\* x || 0 on a number
OrZero(x) == IF x = 0 THEN 0 ELSE x

likeRate(stats) ==
  IF stats.opens > 0 THEN Rat(stats.likes, stats.opens) ELSE RInt(0)

reportRateBad(stats) ==
  IF stats.opens > 0 THEN Rat(stats.reports, stats.opens) ELSE RInt(1)

reportRate(stats) ==
  IF stats.opens > 0 THEN Rat(stats.reports, stats.opens) ELSE RInt(0)

playTimeScore(stats) == RMin(Rat(OrZero(stats.avgPlayTime), 60), RInt(1))

getBaseScore(game) ==
  RAdd(RAdd(RMul(playTimeScore(game.stats), Rat(4, 10)),
            RMul(likeRate(game.stats), Rat(4, 10))),
       RMul(RSub(RInt(1), reportRate(game.stats)), Rat(2, 10)))

getAgeMatchScoreBad(game, userAge) ==
  IF userAge = Undefined THEN RInt(1)
  ELSE LET age == userAge[1]
           minAge == game.ageRange[1]
           maxAge == game.ageRange[2]
       IN  IF age >= minAge /\ age <= maxAge THEN RInt(1)
           ELSE IF Abs(age - minAge) <= 1 \/ Abs(age - maxAge) <= 1 THEN Rat(8, 10)
           ELSE IF Abs(age - minAge) < 2 \/ Abs(age - maxAge) < 2 THEN Rat(6, 10)
           ELSE Rat(3, 10)

\* userAge is optional: <<>> or <<age>>
getAgeMatchScore(game, userAge) ==
  IF userAge = Undefined THEN RInt(1)
  ELSE LET age == userAge[1]
           minAge == game.ageRange[1]
           maxAge == game.ageRange[2]
       IN  IF age >= minAge /\ age <= maxAge THEN RInt(1)
           ELSE IF Abs(age - minAge) <= 1 \/ Abs(age - maxAge) <= 1 THEN Rat(8, 10)
           ELSE IF Abs(age - minAge) <= 2 \/ Abs(age - maxAge) <= 2 THEN Rat(6, 10)
           ELSE Rat(3, 10)

getRiskLevelScoreBad(game) ==
  LET securityChecks == Get(game.trustBadge, "securityChecks")
  IN  IF securityChecks = Undefined THEN Throw("TypeError")
      ELSE LET c == securityChecks[1]
               s1 == IF c.hasAds THEN Rat(7, 10) ELSE RInt(1)
               s2 == IF c.hasTracking THEN RMul(s1, Rat(8, 10)) ELSE s1
               s3 == IF c.hasExternalLinks THEN RMul(s2, Rat(9, 10)) ELSE s2
               s4 == IF c.contentModerated THEN RMul(s3, Rat(11, 10)) ELSE s3
           IN  Ok(RMax(s4, Rat(5, 10)))

\* const { securityChecks } = game.trustBadge; securityChecks.hasAds ...
getRiskLevelScore(game) ==
  LET securityChecks == Get(game.trustBadge, "securityChecks")
  IN  IF securityChecks = Undefined THEN Throw("TypeError")
      ELSE LET c == securityChecks[1]
               s1 == IF c.hasAds THEN Rat(7, 10) ELSE RInt(1)
               s2 == IF c.hasTracking THEN RMul(s1, Rat(8, 10)) ELSE s1
               s3 == IF c.hasExternalLinks THEN RMul(s2, Rat(9, 10)) ELSE s2
               s4 == IF c.contentModerated THEN RMul(s3, RInt(1)) ELSE s3
           IN  Ok(RMax(s4, Rat(5, 10)))

getFreshnessScoreBad(game, now) ==
  LET lp == Get(game, "lastPlayed")
      lastUpdated == IF lp = Undefined \/ lp[1] = 0 THEN now ELSE lp[1]
      daysSinceUpdate == Rat(now - lastUpdated, 24)
  IN  IF RLe(daysSinceUpdate, RInt(6)) THEN RInt(1)
      ELSE IF RLe(daysSinceUpdate, RInt(30)) THEN Rat(9, 10)
      ELSE IF RLe(daysSinceUpdate, RInt(90)) THEN Rat(8, 10)
      ELSE Rat(7, 10)

getFreshnessScoreStrict(game, now) ==
  LET lp == Get(game, "lastPlayed")
      lastUpdated == IF lp = Undefined \/ lp[1] = 0 THEN now ELSE lp[1]
      daysSinceUpdate == Rat(now - lastUpdated, 24)
  IN  IF RLt(daysSinceUpdate, RInt(7)) THEN RInt(1)
      ELSE IF RLt(daysSinceUpdate, RInt(30)) THEN Rat(9, 10)
      ELSE IF RLt(daysSinceUpdate, RInt(90)) THEN Rat(8, 10)
      ELSE Rat(7, 10)

\* game.lastPlayed || Date.now(); times in hours, so a day is 24
getFreshnessScore(game, now) ==
  LET lp == Get(game, "lastPlayed")
      lastUpdated == IF lp = Undefined \/ lp[1] = 0 THEN now ELSE lp[1]
      daysSinceUpdate == Rat(now - lastUpdated, 24)
  IN  IF RLe(daysSinceUpdate, RInt(7)) THEN RInt(1)
      ELSE IF RLe(daysSinceUpdate, RInt(30)) THEN Rat(9, 10)
      ELSE IF RLe(daysSinceUpdate, RInt(90)) THEN Rat(8, 10)
      ELSE Rat(7, 10)

calculateTrustScore(game, now) ==
  LET baseScore == getBaseScore(game)
      ageMatch == getAgeMatchScore(game, Undefined)
      riskLevel == getRiskLevelScore(game)
  IN  IF riskLevel.tag = "throw" THEN riskLevel
      ELSE Ok(RMul(RMul(RMul(baseScore, ageMatch), riskLevel.val),
                   getFreshnessScore(game, now)))

getTrustLevelBad(trustScore) ==
  IF RGt(trustScore, Rat(9, 10)) THEN "hall"
  ELSE IF RGe(trustScore, Rat(75, 100)) THEN "featured"
  ELSE "verified"

getTrustLevelStrict(trustScore) ==
  IF RGe(trustScore, Rat(9, 10)) THEN "hall"
  ELSE IF RGt(trustScore, Rat(75, 100)) THEN "featured"
  ELSE "verified"

getTrustLevel(trustScore) ==
  IF RGe(trustScore, Rat(9, 10)) THEN "hall"
  ELSE IF RGe(trustScore, Rat(75, 100)) THEN "featured"
  ELSE "verified"

isGameSafe(game, strictMode) ==
  LET securityChecks == Get(game.trustBadge, "securityChecks")
  IN  IF securityChecks = Undefined THEN Throw("TypeError")
      ELSE IF ~securityChecks[1].contentModerated THEN Ok(FALSE)
      ELSE IF strictMode /\ (securityChecks[1].hasAds \/ securityChecks[1].hasTracking)
           THEN Ok(FALSE)
      ELSE Ok(TRUE)

(***************************************************************************)
(* Array.prototype.sort and slice.  sort is stable, and for a consistent   *)
(* comparator the stable sorted order is unique: it is built here by       *)
(* inserting the elements in input order, each one before the first        *)
(* element it sorts strictly before.  cmp[i][j] is the comparator's result *)
(* on the elements at input positions i and j; order is a sequence of      *)
(* input positions.                                                        *)
(***************************************************************************)
SetMin(S) == CHOOSE m \in S : \A n \in S : m <= n

InsertSortedUnstable(order, x, cmp) ==
  LET later == {j \in 1..Len(order) : cmp[x][order[j]] <= 0}
      p == IF later = {} THEN Len(order) + 1 ELSE SetMin(later)
  IN  SubSeq(order, 1, p - 1) \o <<x>> \o SubSeq(order, p, Len(order))

InsertSorted(order, x, cmp) ==
  LET later == {j \in 1..Len(order) : cmp[x][order[j]] < 0}
      p == IF later = {} THEN Len(order) + 1 ELSE SetMin(later)
  IN  SubSeq(order, 1, p - 1) \o <<x>> \o SubSeq(order, p, Len(order))

ArraySortUnstable(s, cmp) ==
  LET f[i \in 0..Len(s)] ==
        IF i = 0 THEN <<>> ELSE InsertSortedUnstable(f[i - 1], i, cmp)
  IN  [k \in 1..Len(s) |-> s[f[Len(s)][k]]]

ArraySort(s, cmp) ==
  LET f[i \in 0..Len(s)] == IF i = 0 THEN <<>> ELSE InsertSorted(f[i - 1], i, cmp)
  IN  [k \in 1..Len(s) |-> s[f[Len(s)][k]]]

\* s.slice(0, end): a negative end counts from the end of the array
SliceFromStart(s, end) ==
  LET e == IF end < 0 THEN (IF Len(s) + end < 0 THEN 0 ELSE Len(s) + end)
           ELSE (IF end > Len(s) THEN Len(s) ELSE end)
  IN  SubSeq(s, 1, e)

\* (a, b) => b.score - a.score, on every pair of positions
ByScoreDesc(items) ==
  [i \in DOMAIN items |-> [j \in DOMAIN items |-> RSub(items[j].score, items[i].score)[1]]]

getTrustRankingBad(games, limit, now) ==
  LET scored == [i \in 1..Len(games) |->
                   [game |-> games[i], score |-> calculateTrustScore(games[i], now)]]
      thrown == {i \in 1..Len(games) : scored[i].score.tag = "throw"}
  IN  IF thrown # {} THEN scored[SetMin(thrown)].score
      ELSE LET items == [i \in 1..Len(games) |->
                           [game |-> games[i], score |-> scored[i].score.val]]
               top == SliceFromStart(ArraySortUnstable(items, ByScoreDesc(items)), limit)
           IN  Ok([i \in 1..Len(top) |-> top[i].game])

getTrustRanking(games, limit, now) ==
  LET scored == [i \in 1..Len(games) |->
                   [game |-> games[i], score |-> calculateTrustScore(games[i], now)]]
      thrown == {i \in 1..Len(games) : scored[i].score.tag = "throw"}
  IN  IF thrown # {} THEN scored[SetMin(thrown)].score
      ELSE LET items == [i \in 1..Len(games) |->
                           [game |-> games[i], score |-> scored[i].score.val]]
               top == SliceFromStart(ArraySort(items, ByScoreDesc(items)), limit)
           IN  Ok([i \in 1..Len(top) |-> top[i].game])

(***************************************************************************)
(* AgeRecommendationEngine (src/unnamed/part_002).                         *)
(***************************************************************************)
DigitChars == <<"0", "1", "2", "3", "4", "5", "6", "7", "8", "9">>

\* template-literal formatting of a non-negative integer
RECURSIVE NumStr(_)
NumStr(n) ==
  IF n < 10 THEN <<DigitChars[n + 1]>>
  ELSE NumStr(n \div 10) \o <<DigitChars[(n % 10) + 1]>>

\* `${ageRange[0]}-${ageRange[1]}`
ageKey(ageRange) == NumStr(ageRange[1]) \o <<"-">> \o NumStr(ageRange[2])

getDefaultAge == <<6, 9>>

\* counts: the Map's entries in insertion order
countAgeRange(counts, ageRange) ==
  LET key == ageKey(ageRange)
      hit == {i \in 1..Len(counts) : counts[i].key = key}
  IN  IF hit # {}
      THEN [i \in 1..Len(counts) |->
              IF i \in hit THEN [counts[i] EXCEPT !.count = @ + 1] ELSE counts[i]]
      ELSE Append(counts, [key |-> key, count |-> 1, ageRange |-> ageRange])

tallyAgeRanges(ageRanges) ==
  LET f[i \in 0..Len(ageRanges)] ==
        IF i = 0 THEN <<>> ELSE countAgeRange(f[i - 1], ageRanges[i])
  IN  f[Len(ageRanges)]

\* (a, b) => b.count - a.count, on every pair of positions
ByCountDesc(entries) ==
  [i \in DOMAIN entries |-> [j \in DOMAIN entries |-> entries[j].count - entries[i].count]]

\* returns <<>> for null
getMostCommonAgeRangeBad(ageRanges) ==
  IF Len(ageRanges) = 0 THEN Undefined
  ELSE LET counts == tallyAgeRanges(ageRanges)
           sorted == ArraySortUnstable(counts, ByCountDesc(counts))
       IN  IF Len(sorted) = 0 THEN Undefined ELSE Some(sorted[1].ageRange)

getMostCommonAgeRange(ageRanges) ==
  IF Len(ageRanges) = 0 THEN Undefined
  ELSE LET counts == tallyAgeRanges(ageRanges)
           sorted == ArraySort(counts, ByCountDesc(counts))
       IN  IF Len(sorted) = 0 THEN Undefined ELSE Some(sorted[1].ageRange)

\* userHistory is optional: <<>> or <<history>>
recommendAgeBad(userHistory) ==
  IF userHistory = Undefined \/ Get(userHistory[1], "recentGames") = Undefined
  THEN getDefaultAge
  ELSE LET h == userHistory[1]
       IN  IF Get(h, "preferredAge") # Undefined THEN h.preferredAge
           ELSE LET recentAges == [i \in 1..Len(h.recentGames) |-> h.recentGames[i].ageRange]
                    mostCommon == getMostCommonAgeRange(recentAges)
                IN  IF mostCommon # Undefined THEN mostCommon[1] ELSE getDefaultAge

recommendAge(userHistory) ==
  IF \/ userHistory = Undefined
     \/ Get(userHistory[1], "recentGames") = Undefined
     \/ Len(userHistory[1].recentGames) = 0
  THEN getDefaultAge
  ELSE LET h == userHistory[1]
       IN  IF Get(h, "preferredAge") # Undefined THEN h.preferredAge
           ELSE LET recentAges == [i \in 1..Len(h.recentGames) |-> h.recentGames[i].ageRange]
                    mostCommon == getMostCommonAgeRange(recentAges)
                IN  IF mostCommon # Undefined THEN mostCommon[1] ELSE getDefaultAge

\* AgeRecommendationEngine.getAgeMatchScore(userAge, gameAgeRange)
AgeRecommendationEngine_getAgeMatchScoreBad(userAge, gameAgeRange) ==
  LET minAge == gameAgeRange[1]
      maxAge == gameAgeRange[2]
  IN  IF userAge >= minAge /\ userAge <= maxAge THEN RInt(1)
      ELSE IF Abs(userAge - minAge) <= 2 \/ Abs(userAge - maxAge) <= 2 THEN Rat(6, 10)
      ELSE IF Abs(userAge - minAge) <= 1 \/ Abs(userAge - maxAge) <= 1 THEN Rat(8, 10)
      ELSE Rat(3, 10)

AgeRecommendationEngine_getAgeMatchScore(userAge, gameAgeRange) ==
  LET minAge == gameAgeRange[1]
      maxAge == gameAgeRange[2]
  IN  IF userAge >= minAge /\ userAge <= maxAge THEN RInt(1)
      ELSE IF Abs(userAge - minAge) <= 1 \/ Abs(userAge - maxAge) <= 1 THEN Rat(8, 10)
      ELSE IF Abs(userAge - minAge) <= 2 \/ Abs(userAge - maxAge) <= 2 THEN Rat(6, 10)
      ELSE Rat(3, 10)

(***************************************************************************)
(* Strings are sequences of characters.                                    *)
(***************************************************************************)
IsDigit(c) == \E d \in 1..10 : DigitChars[d] = c

DigitValue(c) == (CHOOSE d \in 1..10 : DigitChars[d] = c) - 1

\* \d+ matched against the whole of str
AllDigits(str) == Len(str) > 0 /\ \A i \in DOMAIN str : IsDigit(str[i])

\* parseInt(str, 10) on a string of digits
parseInt(str) ==
  LET f[i \in 0..Len(str)] == IF i = 0 THEN 0 ELSE f[i - 1] * 10 + DigitValue(str[i])
  IN  f[Len(str)]

\* length of the longest run of digits of str starting at position i
DigitRun(str, i) ==
  LET stops == {j \in i..Len(str) : ~IsDigit(str[j])}
  IN  IF stops = {} THEN Len(str) - i + 1 ELSE SetMin(stops) - i

\* the same without the $ anchors
parseAgeRangeBad(ageStr) ==
  LET a == DigitRun(ageStr, 1)
      b == DigitRun(ageStr, a + 2)
  IN  IF a > 0 /\ a < Len(ageStr) /\ ageStr[a + 1] = "-" /\ b > 0
      THEN Some(<<parseInt(SubSeq(ageStr, 1, a)), parseInt(SubSeq(ageStr, a + 2, a + 1 + b))>>)
      ELSE IF a > 0 /\ a < Len(ageStr) /\ ageStr[a + 1] = "+"
      THEN Some(<<parseInt(SubSeq(ageStr, 1, a)), 99>>)
      ELSE Undefined

\* ageStr.match(/^(\d+)-(\d+)$/), then ageStr.match(/^(\d+)\+$/); <<>> is null
parseAgeRange(ageStr) ==
  LET a == DigitRun(ageStr, 1)
      b == DigitRun(ageStr, a + 2)
  IN  IF a > 0 /\ a < Len(ageStr) /\ ageStr[a + 1] = "-" /\ b > 0 /\ a + 1 + b = Len(ageStr)
      THEN Some(<<parseInt(SubSeq(ageStr, 1, a)), parseInt(SubSeq(ageStr, a + 2, a + 1 + b))>>)
      ELSE IF a > 0 /\ a + 1 = Len(ageStr) /\ ageStr[a + 1] = "+"
      THEN Some(<<parseInt(SubSeq(ageStr, 1, a)), 99>>)
      ELSE Undefined

recommendByChildAgeBad(childAge) ==
  IF childAge >= 3 /\ childAge < 6 THEN <<3, 6>>
  ELSE IF childAge >= 6 /\ childAge < 9 THEN <<6, 9>>
  ELSE IF childAge >= 9 /\ childAge < 12 THEN <<9, 12>>
  ELSE IF childAge >= 12 THEN <<12, 99>>
  ELSE <<3, 6>>

recommendByChildAge(childAge) ==
  IF childAge >= 3 /\ childAge <= 6 THEN <<3, 6>>
  ELSE IF childAge >= 6 /\ childAge <= 9 THEN <<6, 9>>
  ELSE IF childAge >= 9 /\ childAge <= 12 THEN <<9, 12>>
  ELSE IF childAge >= 12 THEN <<12, 99>>
  ELSE <<3, 6>>

\* x.toFixed(1): the nearest multiple of 1/10, the larger one on a tie
toFixed1(x) ==
  LET m == IF x[1] < 0 THEN <<-x[1], x[2]>> ELSE x
      n == (2 * 10 * m[1] + m[2]) \div (2 * m[2])
      digits == NumStr(n \div 10) \o <<".">> \o <<DigitChars[(n % 10) + 1]>>
  IN  IF x[1] < 0 THEN <<"-">> \o digits ELSE digits

\* The three literals of getParentRatingDisplay, written in ASCII: "fen" is
\* the unit after a score, "tiao jiazhang pingjia" the label after the count,
\* "xin neirong" the new-content text.
getParentRatingDisplayBad(rating, totalRatings) ==
  IF totalRatings > 156
  THEN toFixed1(rating) \o <<"fen", " ", "(">> \o NumStr(totalRatings)
         \o <<"tiao jiazhang pingjia", ")">>
  ELSE IF totalRatings > 20
  THEN toFixed1(RSub(rating, Rat(3, 10))) \o <<"-">>
         \o toFixed1(RAdd(rating, Rat(3, 10))) \o <<"fen">>
  ELSE <<"xin neirong">>

getParentRatingDisplay(rating, totalRatings) ==
  IF totalRatings >= 156
  THEN toFixed1(rating) \o <<"fen", " ", "(">> \o NumStr(totalRatings)
         \o <<"tiao jiazhang pingjia", ")">>
  ELSE IF totalRatings >= 20
  THEN toFixed1(RSub(rating, Rat(3, 10))) \o <<"-">>
         \o toFixed1(RAdd(rating, Rat(3, 10))) \o <<"fen">>
  ELSE <<"xin neirong">>

\* userHistory is optional; now is the Date.now() reading
recordAgeSelectionBad(userHistory, ageRange, now) ==
  LET history == IF userHistory = Undefined THEN [recentGames |-> <<>>] ELSE userHistory[1]
      kept == SliceFromStart(history.recentGames, 50)
  IN  [recentGames |->
         <<[gameId |-> "age-selection", ageRange |-> ageRange, playedAt |-> now]>> \o kept,
       preferredAge |-> ageRange]

\* the same with { preferredAge: ageRange, ...history }
recordAgeSelectionKeepsPreference(userHistory, ageRange, now) ==
  LET history == IF userHistory = Undefined THEN [recentGames |-> <<>>] ELSE userHistory[1]
      kept == SliceFromStart(history.recentGames, 49)
  IN  [recentGames |->
         <<[gameId |-> "age-selection", ageRange |-> ageRange, playedAt |-> now]>> \o kept,
       preferredAge |-> IF "preferredAge" \in DOMAIN history
                        THEN history.preferredAge ELSE ageRange]

recordAgeSelection(userHistory, ageRange, now) ==
  LET history == IF userHistory = Undefined THEN [recentGames |-> <<>>] ELSE userHistory[1]
      kept == SliceFromStart(history.recentGames, 49)
  IN  [recentGames |->
         <<[gameId |-> "age-selection", ageRange |-> ageRange, playedAt |-> now]>> \o kept,
       preferredAge |-> ageRange]

(***************************************************************************)
(* Age-band configuration and its lookups.  The unit suffix of a label is  *)
(* written "sui".                                                          *)
(***************************************************************************)
AGE_GROUPS ==
  LET key36 == <<"3", "-", "6">>
      key69 == <<"6", "-", "9">>
      key912 == <<"9", "-", "1", "2">>
      key12 == <<"1", "2", "+">>
  IN  [key \in {key36, key69, key912, key12} |->
         IF key = key36 THEN [label |-> <<"3", "-", "6", "sui">>, color |-> "#10B981"]
         ELSE IF key = key69 THEN [label |-> <<"6", "-", "9", "sui">>, color |-> "#3B82F6"]
         ELSE IF key = key912 THEN [label |-> <<"9", "-", "1", "2", "sui">>, color |-> "#8B5CF6"]
         ELSE [label |-> <<"1", "2", "sui", "+">>, color |-> "#F59E0B"]]

\* AGE_GROUPS[key]?.label || `${ageRange[0]}-${ageRange[1]}sui`
getAgeLabel(ageRange) ==
  LET key == ageKey(ageRange)
  IN  IF key \in DOMAIN AGE_GROUPS THEN AGE_GROUPS[key].label
      ELSE key \o <<"sui">>

\* AGE_GROUPS[key]?.color || '#3B82F6'
getAgeColor(ageRange) ==
  LET key == ageKey(ageRange)
  IN  IF key \in DOMAIN AGE_GROUPS THEN AGE_GROUPS[key].color
      ELSE "#3B82F6"

(***************************************************************************)
(* AgeSelector (src/unnamed/part_000): selectedAge is its state.           *)
(***************************************************************************)
\* the selectedAge after handleAgeSelect(key)
handleAgeSelect(selectedAge, key) ==
  LET ageRange == parseAgeRange(key)
  IN  IF ageRange # Undefined THEN ageRange[1] ELSE selectedAge

isSelected(selectedAge, key) == ageKey(selectedAge) = key

(***************************************************************************)
(* Arrays and objects by reference.  The heap is a sequence of arrays and  *)
(* objects, a reference is a position in it, and an array or object        *)
(* literal, map and slice each allocate at its end; sort writes the array  *)
(* it is called on.                                                        *)
(***************************************************************************)
Alloc(heap, value) == Append(heap, value)

NewRef(heap) == Len(heap) + 1

\* a ranking that sorts the array it was given
getTrustRankingInPlace(heap, games, limit, now) ==
  LET input == heap[games]
      scores == [i \in 1..Len(input) |-> calculateTrustScore(input[i], now)]
      thrown == {i \in 1..Len(input) : scores[i].tag = "throw"}
  IN  IF thrown # {} THEN [heap |-> heap, ret |-> scores[SetMin(thrown)]]
      ELSE LET items == [i \in 1..Len(input) |-> [game |-> input[i], score |-> scores[i].val]]
               sorted == ArraySort(items, ByScoreDesc(items))
               sortedGames == [i \in 1..Len(sorted) |-> sorted[i].game]
           IN  [heap |-> Alloc([heap EXCEPT ![games] = sortedGames],
                               SliceFromStart(sortedGames, limit)),
                ret |-> Ok(NewRef(heap))]

\* games.map(...).sort(...).slice(0, limit).map(...) on the array at games:
\* the first map allocates the array that sort then orders in place, slice
\* and the second map allocate the next two
getTrustRankingOnHeap(heap, games, limit, now) ==
  LET input == heap[games]
      scores == [i \in 1..Len(input) |-> calculateTrustScore(input[i], now)]
      thrown == {i \in 1..Len(input) : scores[i].tag = "throw"}
  IN  IF thrown # {} THEN [heap |-> heap, ret |-> scores[SetMin(thrown)]]
      ELSE LET mapped == [i \in 1..Len(input) |-> [game |-> input[i], score |-> scores[i].val]]
               sorted == ArraySort(mapped, ByScoreDesc(mapped))
               sliced == SliceFromStart(sorted, limit)
               result == [i \in 1..Len(sliced) |-> sliced[i].game]
           IN  [heap |-> Alloc(Alloc(Alloc(heap, sorted), sliced), result),
                ret |-> Ok(NewRef(heap) + 2)]

\* userHistory is <<>> or <<reference to a UserHistory>>, whose recentGames
\* is a reference to an array; the default history, the slice, the array
\* literal and the object literal are allocated in that order
recordAgeSelectionOnHeap(heap, userHistory, ageRange, now) ==
  LET h0 == IF userHistory = Undefined
            THEN Alloc(Alloc(heap, <<>>), [recentGames |-> NewRef(heap)])
            ELSE heap
      history == IF userHistory = Undefined THEN NewRef(heap) + 1 ELSE userHistory[1]
      sliced == SliceFromStart(h0[h0[history].recentGames], 49)
      recentGames == <<[gameId |-> "age-selection", ageRange |-> ageRange,
                        playedAt |-> now]>> \o sliced
  IN  [heap |-> Alloc(Alloc(Alloc(h0, sliced), recentGames),
                      [recentGames |-> NewRef(h0) + 1, preferredAge |-> ageRange]),
       ret |-> Ok(NewRef(h0) + 2)]

(***************************************************************************)
(* FeedbackManager (src/src/services/FeedbackManager.ts).                  *)
(* feedback.queue is localStorage[QUEUE_KEY], feedback.syncs the           *)
(* syncToServer calls waiting for their fetch, each with the queue and the *)
(* batch it read, feedback.posted the batches whose POST succeeded,        *)
(* feedback.submitted the ids submitted since the queue was last cleared,  *)
(* and feedback.nextId the next id generateId gives.                       *)
(***************************************************************************)
\* the elements of seq at the positions in keep, in order
KeepAt(seq, keep) ==
  LET f[i \in 0..Len(seq)] ==
        IF i = 0 THEN <<>>
        ELSE IF i \in keep THEN Append(f[i - 1], seq[i]) ELSE f[i - 1]
  IN  f[Len(seq)]

RemoveAt(seq, k) == KeepAt(seq, DOMAIN seq \ {k})

\* queue.filter(f => f.status === 'pending')
PendingOf(queue) == KeepAt(queue, {i \in DOMAIN queue : queue[i].status = "pending"})

IdsOf(queue) == {queue[i].id : i \in DOMAIN queue}

\* syncToServer up to its await: read the queue, return if nothing is
\* pending, otherwise send the batch
syncToServerStart(fb) ==
  LET queue == fb.queue
      pendingFeedback == PendingOf(queue)
  IN  IF Len(pendingFeedback) = 0 THEN fb
      ELSE [fb EXCEPT !.syncs = Append(fb.syncs,
                                       [queue |-> queue, pendingFeedback |-> pendingFeedback])]

\* syncToServer after a response that is ok: write back the queue read
\* before the POST with its pending entries marked synced
syncToServerDone(fb, k) ==
  LET request == fb.syncs[k]
      updatedQueue == [i \in DOMAIN request.queue |->
                         IF request.queue[i].status = "pending"
                         THEN [request.queue[i] EXCEPT !.status = "synced"]
                         ELSE request.queue[i]]
  IN  [fb EXCEPT !.queue = updatedQueue,
                 !.syncs = RemoveAt(fb.syncs, k),
                 !.posted = Append(fb.posted, IdsOf(request.pendingFeedback))]

\* queue.push(...newFeedbacks); localStorage.setItem(...)
enqueue(fb, count) ==
  LET ids == fb.nextId..(fb.nextId + count - 1)
      newFeedbacks == [i \in 1..count |-> [id |-> fb.nextId + i - 1, status |-> "pending"]]
  IN  [fb EXCEPT !.queue = fb.queue \o newFeedbacks,
                 !.nextId = fb.nextId + count,
                 !.submitted = fb.submitted \cup ids]

(***************************************************************************)
(* Favourites: FavoriteManager (src/src/services/FavoriteManager.ts) and   *)
(* the reducer of useAppState (src/src/hooks/useAppState.ts) both write    *)
(* localStorage[STORAGE_KEYS.FAVORITES].  favorites.stored is that entry,  *)
(* favorites.state the reducer's state.favorites, favorites.kept the games *)
(* added through FavoriteManager and not removed or cleared since.         *)
(***************************************************************************)
GameIds == {"game-1", "game-2", "game-3"}

\* array.includes(x)
Includes(array, x) == \E i \in DOMAIN array : array[i] = x

\* array.filter(id => id !== x)
Without(array, x) == KeepAt(array, {i \in DOMAIN array : array[i] # x})

\* appReducer, case 'ADD_FAVORITE'
reduceAddFavorite(fav, payload) ==
  IF ~Includes(fav.state, payload)
  THEN LET newFavorites == Append(fav.state, payload)
       IN  [fav EXCEPT !.state = newFavorites, !.stored = newFavorites]
  ELSE fav

\* appReducer, case 'REMOVE_FAVORITE'
reduceRemoveFavorite(fav, payload) ==
  LET filteredFavorites == Without(fav.state, payload)
  IN  [fav EXCEPT !.state = filteredFavorites, !.stored = filteredFavorites]

(***************************************************************************)
(* GameExperience (src/src/components/business/GameExperience.tsx).        *)
(* experience holds the component's gameId prop and its showRiskAlert and  *)
(* hasSeenRisk state, effectPending while the effect on gameId has not run,*)
(* seen[g] for localStorage['risk_alert_' + g] (0: no entry), the clock    *)
(* now in hours, and what happened since the mount: confirmed (the alert   *)
(* was confirmed), remembered (the effect found a remembered confirmation  *)
(* of the current game less than 24 hours old), cancelled (the alert was   *)
(* cancelled and not confirmed since) and ticked (the games confirmed with *)
(* the remember choice).                                                   *)
(***************************************************************************)
\* the iframe is rendered
GameLoaded == experience.mounted /\ experience.hasSeenRisk

\* the RiskAlert is rendered
AlertShowing == experience.mounted /\ experience.showRiskAlert

\* seenTime && (now - seenTime) < 24 hours
SeenRecently(seenTime, now) == seenTime # 0 /\ now - seenTime < 24

(***************************************************************************)
(* Argument sets.                                                          *)
(***************************************************************************)
Games ==
  LET plain == {GameCard("g1", <<6, 9>>, s, k, f) :
                  s \in GameStats, k \in FlagKeys, f \in SecurityStatus}
  IN  plain \cup {WithLastPlayed(g, t) : g \in plain, t \in LastPlayedHours}

Scores == {Rat(k, 10000) : k \in 0..MaxScoreK}

\* Items for the ranking: g1, g2 and g4 have the same score (3/5), g3 scores
\* higher, g5 lower, and g6 carries its flags as the TrustBadge type declares.
CleanFlags ==
  [hasAds |-> FALSE, hasTracking |-> FALSE,
   hasExternalLinks |-> FALSE, contentModerated |-> TRUE]

RankPool ==
  { GameCard("g1", <<6, 9>>, [likes |-> 1, opens |-> 2, reports |-> 0, avgPlayTime |-> 30],
             "securityChecks", CleanFlags),
    GameCard("g2", <<6, 9>>, [likes |-> 1, opens |-> 2, reports |-> 0, avgPlayTime |-> 30],
             "securityChecks", CleanFlags),
    GameCard("g3", <<3, 6>>, [likes |-> 2, opens |-> 2, reports |-> 0, avgPlayTime |-> 90],
             "securityChecks", CleanFlags),
    GameCard("g4", <<9, 12>>, [likes |-> 0, opens |-> 0, reports |-> 0, avgPlayTime |-> 90],
             "securityChecks", CleanFlags),
    GameCard("g5", <<6, 9>>, [likes |-> 1, opens |-> 2, reports |-> 0, avgPlayTime |-> 30],
             "securityChecks", [CleanFlags EXCEPT !.hasAds = TRUE]),
    GameCard("g6", <<6, 9>>, [likes |-> 2, opens |-> 2, reports |-> 0, avgPlayTime |-> 90],
             "securityCheck", CleanFlags) }

GameLists ==
  {s \in UNION {[1..n -> RankPool] : n \in 0..MaxGames} :
     \A i, j \in DOMAIN s : i # j => s[i].id # s[j].id}

RecentGame(ageRange) == [gameId |-> "game-1", ageRange |-> ageRange, playedAt |-> 1]

RecentLists ==
  UNION {[1..n -> {RecentGame(b) : b \in AgeBands}] : n \in 0..MaxHist}

Histories ==
  {Undefined}
    \cup {Some([recentGames |-> l]) : l \in RecentLists}
    \cup {Some([recentGames |-> l, preferredAge |-> b]) : l \in RecentLists, b \in AgeBands}

\* bands with min <= max
AgeRanges ==
  AgeBands \cup {r \in (0..MaxBandAge) \X (0..MaxBandAge) : r[1] <= r[2]}

UserAges == (0..MaxUserAge) \cup (96..102)

NoFlagsGame(ageRange) ==
  GameCard("g1", ageRange, [likes |-> 1, opens |-> 2, reports |-> 0, avgPlayTime |-> 30],
           "securityCheck", CleanFlags)

KeyChars == {"0", "1", "2", "6", "9", "-", "+", "a"}

AgeStrings == UNION {[1..n -> KeyChars] : n \in 0..MaxKeyLen}

ChildAges == -2..MaxChildAge

Ratings == {Rat(k, 10) : k \in 0..MaxRatingTenths}

FlagPool ==
  {GameCard("g1", <<6, 9>>, [likes |-> 1, opens |-> 2, reports |-> 0, avgPlayTime |-> 30],
            k, f) : k \in FlagKeys, f \in SecurityStatus}

\* items last played at, around and beyond each threshold, after the call
\* time, at timestamp 0, and never
FreshPool ==
  LET g == NoFlagsGame(<<6, 9>>)
  IN  {g} \cup {WithLastPlayed(g, t) : t \in LastPlayedHours \cup {NowHours + 24, NowHours - 1}}

(***************************************************************************)
(* Actions: one per public method.                                         *)
(***************************************************************************)
NoCall == [none |-> TRUE]

Init ==
  /\ pc = "idle"
  /\ op = "none"
  /\ args = NoCall
  /\ ret = NoCall
  /\ local = NoCall
  /\ feedback = [queue |-> <<>>, syncs |-> <<>>, posted |-> <<>>,
                 submitted |-> {}, nextId |-> 1]
  /\ favorites = [stored |-> <<>>, state |-> <<>>, kept |-> {}]
  /\ experience = [mounted |-> FALSE, gameId |-> "none", effectPending |-> FALSE,
                   showRiskAlert |-> FALSE, hasSeenRisk |-> FALSE,
                   seen |-> [g \in GameIds |-> 0], now |-> NowHours,
                   confirmed |-> FALSE, remembered |-> FALSE, cancelled |-> FALSE,
                   ticked |-> {}]

CalculateTrustScore ==
  /\ pc = "idle"
  /\ \E game \in Games :
       /\ args' = [game |-> game, now |-> NowHours]
       /\ ret' = calculateTrustScore(game, NowHours)
       /\ local' = [baseScore |-> getBaseScore(game),
                    likeRate |-> likeRate(game.stats),
                    reportRate |-> reportRate(game.stats)]
  /\ op' = "calculateTrustScore"
  /\ pc' = "done"
  /\ UNCHANGED appVars

GetTrustLevel ==
  /\ pc = "idle"
  /\ \E score \in Scores :
       /\ args' = [trustScore |-> score]
       /\ ret' = Ok(getTrustLevel(score))
  /\ local' = NoCall
  /\ op' = "getTrustLevel"
  /\ pc' = "done"
  /\ UNCHANGED appVars

IsGameSafe ==
  /\ pc = "idle"
  /\ \E key \in FlagKeys, flags \in SecurityStatus, strictMode \in BOOLEAN :
       LET game == GameCard("g1", <<6, 9>>, [likes |-> 1, opens |-> 2, reports |-> 0,
                                             avgPlayTime |-> 30], key, flags)
       IN  /\ args' = [game |-> game, strictMode |-> strictMode]
           /\ ret' = isGameSafe(game, strictMode)
  /\ local' = NoCall
  /\ op' = "isGameSafe"
  /\ pc' = "done"
  /\ UNCHANGED appVars

GetTrustRanking ==
  /\ pc = "idle"
  /\ \E games \in GameLists, limit \in -1..MaxLimit :
       /\ args' = [games |-> games, limit |-> limit, now |-> NowHours]
       /\ ret' = getTrustRanking(games, limit, NowHours)
       /\ local' = [scores |-> [i \in 1..Len(games) |-> calculateTrustScore(games[i], NowHours)]]
  /\ op' = "getTrustRanking"
  /\ pc' = "done"
  /\ UNCHANGED appVars

RecommendAge ==
  /\ pc = "idle"
  /\ \E userHistory \in Histories :
       /\ args' = [userHistory |-> userHistory]
       /\ ret' = Ok(recommendAge(userHistory))
  /\ local' = NoCall
  /\ op' = "recommendAge"
  /\ pc' = "done"
  /\ UNCHANGED appVars

\* TrustScoreEngine.getAgeMatchScore(game, userAge?)
GetAgeMatchScore ==
  /\ pc = "idle"
  /\ \E ageRange \in AgeRanges, userAge \in {Undefined} \cup {Some(a) : a \in UserAges} :
       LET game == NoFlagsGame(ageRange)
       IN  /\ args' = [game |-> game, userAge |-> userAge]
           /\ ret' = Ok(getAgeMatchScore(game, userAge))
  /\ local' = NoCall
  /\ op' = "getAgeMatchScore"
  /\ pc' = "done"
  /\ UNCHANGED appVars

\* AgeRecommendationEngine.getAgeMatchScore(userAge, gameAgeRange)
MatchScore ==
  /\ pc = "idle"
  /\ \E ageRange \in AgeRanges, userAge \in UserAges :
       /\ args' = [userAge |-> userAge, gameAgeRange |-> ageRange]
       /\ ret' = Ok(AgeRecommendationEngine_getAgeMatchScore(userAge, ageRange))
  /\ local' = NoCall
  /\ op' = "AgeRecommendationEngine.getAgeMatchScore"
  /\ pc' = "done"
  /\ UNCHANGED appVars

\* calculateTrustScore declares the one parameter game: a user age the caller
\* has is passed as a further argument and never read.
CalculateTrustScoreForUser ==
  /\ pc = "idle"
  /\ \E game \in RankPool, userAge \in UserAges :
       /\ args' = [game |-> game, userAge |-> userAge, now |-> NowHours]
       /\ ret' = calculateTrustScore(game, NowHours)
  /\ local' = NoCall
  /\ op' = "calculateTrustScore(game, userAge)"
  /\ pc' = "done"
  /\ UNCHANGED appVars

GetRiskLevelScore ==
  /\ pc = "idle"
  /\ \E game \in FlagPool :
       /\ args' = [game |-> game]
       /\ ret' = getRiskLevelScore(game)
  /\ local' = NoCall
  /\ op' = "getRiskLevelScore"
  /\ pc' = "done"
  /\ UNCHANGED appVars

GetFreshnessScore ==
  /\ pc = "idle"
  /\ \E game \in FreshPool :
       /\ args' = [game |-> game, now |-> NowHours]
       /\ ret' = Ok(getFreshnessScore(game, NowHours))
  /\ local' = NoCall
  /\ op' = "getFreshnessScore"
  /\ pc' = "done"
  /\ UNCHANGED appVars

GetAgeLabel ==
  /\ pc = "idle"
  /\ \E ageRange \in AgeRanges :
       /\ args' = [ageRange |-> ageRange]
       /\ ret' = Ok(getAgeLabel(ageRange))
  /\ local' = NoCall
  /\ op' = "getAgeLabel"
  /\ pc' = "done"
  /\ UNCHANGED appVars

GetAgeColor ==
  /\ pc = "idle"
  /\ \E ageRange \in AgeRanges :
       /\ args' = [ageRange |-> ageRange]
       /\ ret' = Ok(getAgeColor(ageRange))
  /\ local' = NoCall
  /\ op' = "getAgeColor"
  /\ pc' = "done"
  /\ UNCHANGED appVars

\* a click on one of the options the selector renders, then the render
HandleAgeSelect ==
  /\ pc = "idle"
  /\ \E selectedAge \in AgeBands, key \in DOMAIN AGE_GROUPS :
       LET selected == handleAgeSelect(selectedAge, key)
       IN  /\ args' = [selectedAge |-> selectedAge, ageKey |-> key]
           /\ ret' = Ok([selectedAge |-> selected,
                         isSelected |-> [k \in DOMAIN AGE_GROUPS |-> isSelected(selected, k)]])
  /\ local' = NoCall
  /\ op' = "handleAgeSelect"
  /\ pc' = "done"
  /\ UNCHANGED appVars

ParseAgeRange ==
  /\ pc = "idle"
  /\ \E ageStr \in AgeStrings :
       /\ args' = [ageStr |-> ageStr]
       /\ ret' = Ok(parseAgeRange(ageStr))
  /\ local' = NoCall
  /\ op' = "parseAgeRange"
  /\ pc' = "done"
  /\ UNCHANGED appVars

RecommendByChildAge ==
  /\ pc = "idle"
  /\ \E childAge \in ChildAges :
       /\ args' = [childAge |-> childAge]
       /\ ret' = Ok(recommendByChildAge(childAge))
  /\ local' = NoCall
  /\ op' = "recommendByChildAge"
  /\ pc' = "done"
  /\ UNCHANGED appVars

GetParentRatingDisplay ==
  /\ pc = "idle"
  /\ \E rating \in Ratings, totalRatings \in 0..MaxRatings :
       /\ args' = [rating |-> rating, totalRatings |-> totalRatings]
       /\ ret' = Ok(getParentRatingDisplay(rating, totalRatings))
  /\ local' = NoCall
  /\ op' = "getParentRatingDisplay"
  /\ pc' = "done"
  /\ UNCHANGED appVars

Return ==
  /\ pc = "done"
  /\ pc' = "idle"
  /\ op' = "none"
  /\ args' = NoCall
  /\ ret' = NoCall
  /\ local' = NoCall
  /\ UNCHANGED appVars

Next ==
  \/ CalculateTrustScore
  \/ GetTrustLevel
  \/ IsGameSafe
  \/ GetTrustRanking
  \/ RecommendAge
  \/ GetAgeMatchScore
  \/ MatchScore
  \/ CalculateTrustScoreForUser
  \/ GetRiskLevelScore
  \/ GetFreshnessScore
  \/ GetAgeLabel
  \/ GetAgeColor
  \/ HandleAgeSelect
  \/ ParseAgeRange
  \/ RecommendByChildAge
  \/ GetParentRatingDisplay
  \/ Return

Spec == Init /\ [][Next]_vars

(***************************************************************************)
(* The same call made twice.  Date.now() is read inside getFreshnessScore, *)
(* so the second call sees a later clock: Clocks are the readings, in      *)
(* hours, and the first call's clock and outcome are kept in local.first.  *)
(***************************************************************************)
Clocks == {NowHours + 12 * k : k \in 0..MaxClockSteps}

\* g1 unchanged or last played 6, 29 or 89 days before NowHours; g5 scores
\* 14/25 whenever it is scored; g6 is shaped as the TrustBadge type declares
ClockPool ==
  LET g1 == CHOOSE g \in RankPool : g.id = "g1"
      g6 == CHOOSE g \in RankPool : g.id = "g6"
      g5 == GameCard("g5", <<6, 9>>,
                     [likes |-> 2, opens |-> 2, reports |-> 0, avgPlayTime |-> 30],
                     "securityChecks", [CleanFlags EXCEPT !.hasAds = TRUE])
  IN  {g1, g5, g6} \cup {WithLastPlayed(g1, NowHours - 24 * d) : d \in {0, 6, 29, 89}}

ClockLists ==
  {l \in UNION {[1..n -> ClockPool] : n \in 1..2} :
     \A i, j \in DOMAIN l : i # j => l[i].id # l[j].id}

ScoreAt ==
  /\ pc = "idle"
  /\ \E game \in ClockPool, now \in Clocks :
       /\ args' = [game |-> game, now |-> now]
       /\ ret' = calculateTrustScore(game, now)
  /\ local' = NoCall
  /\ op' = "calculateTrustScore"
  /\ pc' = "done"
  /\ UNCHANGED appVars

ScoreAgainAt ==
  /\ pc = "done"
  /\ op = "calculateTrustScore"
  /\ \E now \in Clocks :
       /\ now >= args.now
       /\ args' = [args EXCEPT !.now = now]
       /\ ret' = calculateTrustScore(args.game, now)
  /\ local' = [first |-> [now |-> args.now, ret |-> ret]]
  /\ op' = "calculateTrustScore again"
  /\ pc' = "done"
  /\ UNCHANGED appVars

RankAt ==
  /\ pc = "idle"
  /\ \E games \in ClockLists, now \in Clocks :
       /\ args' = [games |-> games, limit |-> 10, now |-> now]
       /\ ret' = getTrustRanking(games, 10, now)
  /\ local' = NoCall
  /\ op' = "getTrustRanking"
  /\ pc' = "done"
  /\ UNCHANGED appVars

RankAgainAt ==
  /\ pc = "done"
  /\ op = "getTrustRanking"
  /\ \E now \in Clocks :
       /\ now >= args.now
       /\ args' = [args EXCEPT !.now = now]
       /\ ret' = getTrustRanking(args.games, args.limit, now)
  /\ local' = [first |-> [now |-> args.now, ret |-> ret]]
  /\ op' = "getTrustRanking again"
  /\ pc' = "done"
  /\ UNCHANGED appVars

NextClock ==
  \/ ScoreAt
  \/ ScoreAgainAt
  \/ RankAt
  \/ RankAgainAt
  \/ Return

SpecClock == Init /\ [][NextClock]_vars

(***************************************************************************)
(* The interaction log.  The caller keeps the UserHistory and hands the    *)
(* value recordAgeSelection returned to the next call; local counts the    *)
(* inserts and is the clock.                                               *)
(***************************************************************************)
\* n records, newest first
StartRecords(n) ==
  [i \in 1..n |-> [gameId |-> "game-1",
                   ageRange |-> IF i % 2 = 0 THEN <<6, 9>> ELSE <<9, 12>>,
                   playedAt |-> n - i + 1]]

StartHistories ==
  {Undefined}
    \cup {Some([recentGames |-> StartRecords(n)]) : n \in {0, 1, 48, 49, 50, 51}}
    \cup {Some([recentGames |-> StartRecords(n), preferredAge |-> <<3, 6>>]) :
            n \in {0, 1, 48, 49, 50, 51}}

RecordAgeSelection ==
  /\ pc = "idle"
  /\ \E userHistory \in StartHistories, ageRange \in AgeBands :
       /\ args' = [userHistory |-> userHistory, ageRange |-> ageRange, now |-> 100]
       /\ ret' = Ok(recordAgeSelection(userHistory, ageRange, 100))
  /\ local' = [inserts |-> 1]
  /\ op' = "recordAgeSelection"
  /\ pc' = "done"
  /\ UNCHANGED appVars

RecordNextAgeSelection ==
  /\ pc = "done"
  /\ op = "recordAgeSelection"
  /\ local.inserts < MaxInserts
  /\ \E ageRange \in AgeBands :
       /\ args' = [userHistory |-> Some(ret.val), ageRange |-> ageRange,
                   now |-> 100 + local.inserts]
       /\ ret' = Ok(recordAgeSelection(Some(ret.val), ageRange, 100 + local.inserts))
  /\ local' = [inserts |-> local.inserts + 1]
  /\ op' = "recordAgeSelection"
  /\ pc' = "done"
  /\ UNCHANGED appVars

\* recommendAge on the history the last recordAgeSelection returned
RecommendAfterRecord ==
  /\ pc = "done"
  /\ op = "recordAgeSelection"
  /\ args' = [userHistory |-> Some(ret.val), selected |-> args.ageRange]
  /\ ret' = Ok(recommendAge(Some(ret.val)))
  /\ local' = local
  /\ op' = "recommendAge"
  /\ pc' = "done"
  /\ UNCHANGED appVars

NextHistory ==
  \/ RecordAgeSelection
  \/ RecordNextAgeSelection
  \/ RecommendAfterRecord
  \/ Return

SpecHistory == Init /\ [][NextHistory]_vars

(***************************************************************************)
(* The caller's list and history, held by reference: local.heap is the     *)
(* heap after the call and local.before the heap when it was made.         *)
(***************************************************************************)
StartHeaps ==
  {<<StartRecords(n), [recentGames |-> 1]>> : n \in {0, 1, 49, 50}}
    \cup {<<StartRecords(n), [recentGames |-> 1, preferredAge |-> <<3, 6>>]>> :
            n \in {0, 1, 49, 50}}

RankOnHeap ==
  /\ pc = "idle"
  /\ \E games \in GameLists, limit \in -1..MaxLimit :
       LET heap == <<games>>
           out == getTrustRankingOnHeap(heap, 1, limit, NowHours)
       IN  /\ args' = [games |-> 1, limit |-> limit, now |-> NowHours]
           /\ ret' = out.ret
           /\ local' = [heap |-> out.heap, before |-> heap, inserts |-> 0]
  /\ op' = "getTrustRanking"
  /\ pc' = "done"
  /\ UNCHANGED appVars

RecordOnHeap ==
  /\ pc = "idle"
  /\ \E heap \in StartHeaps, given \in BOOLEAN, ageRange \in AgeBands :
       LET userHistory == IF given THEN Some(2) ELSE Undefined
           out == recordAgeSelectionOnHeap(heap, userHistory, ageRange, 100)
       IN  /\ args' = [userHistory |-> userHistory, ageRange |-> ageRange, now |-> 100]
           /\ ret' = out.ret
           /\ local' = [heap |-> out.heap, before |-> heap, inserts |-> 1]
  /\ op' = "recordAgeSelection"
  /\ pc' = "done"
  /\ UNCHANGED appVars

RecordNextOnHeap ==
  /\ pc = "done"
  /\ op = "recordAgeSelection"
  /\ local.inserts < MaxInserts
  /\ \E ageRange \in AgeBands :
       LET out == recordAgeSelectionOnHeap(local.heap, Some(ret.val), ageRange,
                                           100 + local.inserts)
       IN  /\ args' = [userHistory |-> Some(ret.val), ageRange |-> ageRange,
                       now |-> 100 + local.inserts]
           /\ ret' = out.ret
           /\ local' = [heap |-> out.heap, before |-> local.heap,
                        inserts |-> local.inserts + 1]
  /\ op' = "recordAgeSelection"
  /\ pc' = "done"
  /\ UNCHANGED appVars

NextHeap ==
  \/ RankOnHeap
  \/ RecordOnHeap
  \/ RecordNextOnHeap
  \/ Return

SpecHeap == Init /\ [][NextHeap]_vars

(***************************************************************************)
(* The feedback queue: submissions and syncToServer calls interleave at    *)
(* the awaits.                                                             *)
(***************************************************************************)
SubmitFeedback ==
  /\ feedback.nextId <= MaxFeedback
  /\ Len(feedback.syncs) < MaxSyncs
  /\ feedback' = syncToServerStart(enqueue(feedback, 1))
  /\ UNCHANGED <<engineVars, favorites, experience>>

SubmitFeedbackBatch ==
  /\ feedback.nextId + 1 <= MaxFeedback
  /\ Len(feedback.syncs) < MaxSyncs
  /\ feedback' = syncToServerStart(enqueue(feedback, 2))
  /\ UNCHANGED <<engineVars, favorites, experience>>

SyncToServer ==
  /\ Len(feedback.syncs) < MaxSyncs
  /\ feedback' = syncToServerStart(feedback)
  /\ UNCHANGED <<engineVars, favorites, experience>>

\* the response of one POST arrives and is ok
SyncSucceeds ==
  /\ \E k \in DOMAIN feedback.syncs : feedback' = syncToServerDone(feedback, k)
  /\ UNCHANGED <<engineVars, favorites, experience>>

\* fetch rejects or the response is not ok: the catch only logs
SyncFails ==
  /\ \E k \in DOMAIN feedback.syncs :
       feedback' = [feedback EXCEPT !.syncs = RemoveAt(feedback.syncs, k)]
  /\ UNCHANGED <<engineVars, favorites, experience>>

ClearQueue ==
  /\ feedback' = [feedback EXCEPT !.queue = <<>>, !.submitted = {}]
  /\ UNCHANGED <<engineVars, favorites, experience>>

NextFeedback ==
  \/ SubmitFeedback
  \/ SubmitFeedbackBatch
  \/ SyncToServer
  \/ SyncSucceeds
  \/ SyncFails
  \/ ClearQueue

SpecFeedback == Init /\ [][NextFeedback]_vars

(***************************************************************************)
(* The persisted favourites list and its two writers.                      *)
(***************************************************************************)
AddToFavorites ==
  /\ \E gameId \in GameIds :
       favorites' = [favorites EXCEPT
                       !.stored = IF ~Includes(favorites.stored, gameId)
                                  THEN Append(favorites.stored, gameId)
                                  ELSE favorites.stored,
                       !.kept = favorites.kept \cup {gameId}]
  /\ UNCHANGED <<engineVars, feedback, experience>>

RemoveFromFavorites ==
  /\ \E gameId \in GameIds :
       favorites' = [favorites EXCEPT !.stored = Without(favorites.stored, gameId),
                                      !.kept = favorites.kept \ {gameId}]
  /\ UNCHANGED <<engineVars, feedback, experience>>

ClearFavorites ==
  /\ favorites' = [favorites EXCEPT !.stored = <<>>, !.kept = {}]
  /\ UNCHANGED <<engineVars, feedback, experience>>

\* dispatch({ type: 'ADD_FAVORITE', payload })
DispatchAddFavorite ==
  /\ \E payload \in GameIds : favorites' = reduceAddFavorite(favorites, payload)
  /\ UNCHANGED <<engineVars, feedback, experience>>

\* dispatch({ type: 'REMOVE_FAVORITE', payload })
DispatchRemoveFavorite ==
  /\ \E payload \in GameIds :
       favorites' = [reduceRemoveFavorite(favorites, payload) EXCEPT
                       !.kept = favorites.kept \ {payload}]
  /\ UNCHANGED <<engineVars, feedback, experience>>

NextFavorites ==
  \/ AddToFavorites
  \/ RemoveFromFavorites
  \/ ClearFavorites
  \/ DispatchAddFavorite
  \/ DispatchRemoveFavorite

SpecFavorites == Init /\ [][NextFavorites]_vars

(***************************************************************************)
(* The game page: mount, the effect on gameId, the alert's buttons, a      *)
(* change of the gameId prop, unmount, and the passing of time.            *)
(***************************************************************************)
Mount ==
  /\ ~experience.mounted
  /\ \E gameId \in GameIds :
       experience' = [experience EXCEPT
                        !.mounted = TRUE, !.gameId = gameId, !.effectPending = TRUE,
                        !.showRiskAlert = FALSE, !.hasSeenRisk = FALSE,
                        !.confirmed = FALSE, !.remembered = FALSE, !.cancelled = FALSE]
  /\ UNCHANGED <<engineVars, feedback, favorites>>

\* the effect: checkRiskAlertHistory; localStorage.getItem may throw
CheckRiskAlertHistory ==
  /\ experience.mounted
  /\ experience.effectPending
  /\ \E throws \in BOOLEAN :
       LET seenTime == experience.seen[experience.gameId]
       IN  IF ~throws /\ SeenRecently(seenTime, experience.now)
           THEN experience' = [experience EXCEPT !.effectPending = FALSE,
                                                 !.hasSeenRisk = TRUE,
                                                 !.remembered = TRUE]
           ELSE experience' = [experience EXCEPT !.effectPending = FALSE,
                                                 !.showRiskAlert = TRUE]
  /\ UNCHANGED <<engineVars, feedback, favorites>>

\* onConfirm of the RiskAlert; localStorage.setItem may throw
HandleRiskConfirm ==
  /\ AlertShowing
  /\ \E rememberChoice \in BOOLEAN, saved \in BOOLEAN :
       experience' = [experience EXCEPT
                        !.seen = IF rememberChoice /\ saved
                                 THEN [experience.seen EXCEPT
                                         ![experience.gameId] = experience.now]
                                 ELSE experience.seen,
                        !.ticked = IF rememberChoice
                                   THEN experience.ticked \cup {experience.gameId}
                                   ELSE experience.ticked,
                        !.showRiskAlert = FALSE,
                        !.hasSeenRisk = TRUE,
                        !.confirmed = TRUE,
                        !.cancelled = FALSE]
  /\ UNCHANGED <<engineVars, feedback, favorites>>

\* onCancel of the RiskAlert: onExit?.() and nothing else
CancelRiskAlert ==
  /\ AlertShowing
  /\ experience' = [experience EXCEPT !.cancelled = TRUE]
  /\ UNCHANGED <<engineVars, feedback, favorites>>

\* the parent renders the component with another gameId
ChangeGame ==
  /\ experience.mounted
  /\ \E gameId \in GameIds \ {experience.gameId} :
       experience' = [experience EXCEPT !.gameId = gameId, !.effectPending = TRUE,
                                        !.remembered = FALSE, !.cancelled = FALSE]
  /\ UNCHANGED <<engineVars, feedback, favorites>>

Unmount ==
  /\ experience.mounted
  /\ experience' = [experience EXCEPT
                      !.mounted = FALSE, !.gameId = "none", !.effectPending = FALSE,
                      !.showRiskAlert = FALSE, !.hasSeenRisk = FALSE,
                      !.confirmed = FALSE, !.remembered = FALSE, !.cancelled = FALSE]
  /\ UNCHANGED <<engineVars, feedback, favorites>>

\* twelve hours pass
Tick ==
  /\ experience.now + 12 \in Clocks
  /\ experience' = [experience EXCEPT !.now = experience.now + 12]
  /\ UNCHANGED <<engineVars, feedback, favorites>>

NextExperience ==
  \/ Mount
  \/ CheckRiskAlertHistory
  \/ HandleRiskConfirm
  \/ CancelRiskAlert
  \/ ChangeGame
  \/ Unmount
  \/ Tick

SpecExperience == Init /\ [][NextExperience]_vars

(***************************************************************************)
(* Properties.                                                             *)
(***************************************************************************)
Called(o) == pc = "done" /\ op = o

\* the item carries its flags where the TrustBadge type declares them
DataModelShaped(game) == "securityCheck" \in DOMAIN game.trustBadge

FlagsOf(game) ==
  IF DataModelShaped(game) THEN game.trustBadge.securityCheck
  ELSE game.trustBadge.securityChecks

\* C1: for non-negative likes, opens, reports and avgPlayTime, any flags and
\* any lastUpdated, the value calculateTrustScore returns lies in [0,1].
C1_ScoreInUnitInterval ==
  (Called("calculateTrustScore") /\ ret.tag = "ok")
    => (RLe(RInt(0), ret.val) /\ RLe(ret.val, RInt(1)))

\* C2: calculateTrustScore, isGameSafe and getTrustRanking complete and return
\* a value for every item shaped as the data model defines it (flags carried
\* by trustBadge.securityCheck); none of them faults.
C2_CoreIsTotal ==
  /\ (Called("calculateTrustScore") /\ DataModelShaped(args.game)) => ret.tag = "ok"
  /\ (Called("isGameSafe") /\ DataModelShaped(args.game)) => ret.tag = "ok"
  /\ (Called("getTrustRanking")
        /\ \A i \in DOMAIN args.games : DataModelShaped(args.games[i]))
       => ret.tag = "ok"

\* C3: with opens = 0 the like-rate term is 0 and the report-suppression term
\* is 1, so the engagement factor is 0.4*min(avgPlayTime/60, 1) + 0.2, a
\* well-defined number.
C3_ZeroOpensEngagement ==
  (Called("calculateTrustScore") /\ args.game.stats.opens = 0)
    => LET t == args.game.stats.avgPlayTime
           play == IF t >= 60 THEN <<1, 1>> ELSE Rat(t, 60)
       IN  /\ local.likeRate = <<0, 1>>
           /\ RSub(<<1, 1>>, local.reportRate) = <<1, 1>>
           /\ local.baseScore[2] > 0
           /\ local.baseScore = RAdd(RMul(Rat(2, 5), play), Rat(1, 5))

C3_Witness ==
  /\ Called("calculateTrustScore")
  /\ args.game.stats.opens = 0
  /\ args.game.stats.likes > 0
  /\ args.game.stats.reports > 0
  /\ args.game.stats.avgPlayTime = 30
  /\ local.baseScore = Rat(2, 5)

\* C4: getTrustLevel maps every score >= 0.9 to hall, every score with
\* 0.75 <= score < 0.9 to featured and every other score to verified.
C4_TierBoundaries ==
  Called("getTrustLevel")
    => LET n == args.trustScore[1]
           d == args.trustScore[2]
       IN  /\ (10 * n >= 9 * d) <=> (ret.val = "hall")
           /\ (4 * n >= 3 * d /\ 10 * n < 9 * d) <=> (ret.val = "featured")
           /\ (4 * n < 3 * d) <=> (ret.val = "verified")

C4_Witness ==
  Called("getTrustLevel") /\ args.trustScore = <<3, 4>> /\ ret.val = "featured"

\* C5 as stated: getTrustLevel(0.9) = featured, getTrustLevel(0.8999) =
\* featured, getTrustLevel(0.75) = featured, getTrustLevel(0.7499) = verified,
\* getTrustLevel(0.9001) = hall.
C5_BoundaryExamplesAsStated ==
  Called("getTrustLevel")
    => /\ args.trustScore = Rat(9000, 10000) => ret.val = "featured"
       /\ args.trustScore = Rat(8999, 10000) => ret.val = "featured"
       /\ args.trustScore = Rat(7500, 10000) => ret.val = "featured"
       /\ args.trustScore = Rat(7499, 10000) => ret.val = "verified"
       /\ args.trustScore = Rat(9001, 10000) => ret.val = "hall"

\* C5 amended: getTrustLevel(0.9) = hall; the other four examples as stated.
C5_BoundaryExamples ==
  Called("getTrustLevel")
    => /\ args.trustScore = Rat(9000, 10000) => ret.val = "hall"
       /\ args.trustScore = Rat(8999, 10000) => ret.val = "featured"
       /\ args.trustScore = Rat(7500, 10000) => ret.val = "featured"
       /\ args.trustScore = Rat(7499, 10000) => ret.val = "verified"
       /\ args.trustScore = Rat(9001, 10000) => ret.val = "hall"

C5_Witness ==
  Called("getTrustLevel") /\ args.trustScore = <<9, 10>> /\ ret.val = "hall"

\* C6: for all 16 flag combinations and both modes, isGameSafe returns true
\* exactly when contentModerated and (not strict, or neither hasAds nor
\* hasTracking); hasExternalLinks never matters.
C6_IsSafeRule ==
  Called("isGameSafe")
    => LET f == FlagsOf(args.game)
       IN  /\ ret.tag = "ok"
           /\ ret.val = (f.contentModerated
                           /\ (~args.strictMode \/ ~(f.hasAds \/ f.hasTracking)))

\* C7: recommendAge returns history.preferredAge unchanged whenever it is
\* present, whatever recentGames contains, the empty list included.
C7_PreferredAgeWins ==
  (Called("recommendAge") /\ args.userHistory # Undefined
     /\ "preferredAge" \in DOMAIN args.userHistory[1])
    => ret.val = args.userHistory[1].preferredAge

\* C8: recommendAge returns the default band (6,9) when no history is given
\* or when recentGames is empty.
C8_DefaultBand ==
  (Called("recommendAge")
     /\ (args.userHistory = Undefined \/ args.userHistory[1].recentGames = <<>>))
    => ret.val = <<6, 9>>

C8_Witness ==
  /\ Called("recommendAge")
  /\ args.userHistory # Undefined
  /\ args.userHistory[1].recentGames = <<>>
  /\ "preferredAge" \in DOMAIN args.userHistory[1]
  /\ args.userHistory[1].preferredAge = <<9, 12>>
  /\ ret.val = <<6, 9>>

\* occurrences of band b among the first k records of l
Occurrences(l, b, k) == Cardinality({i \in 1..k : l[i].ageRange = b})

BandsOf(l) == {l[i].ageRange : i \in DOMAIN l}

IsMostCommon(l, b) ==
  /\ b \in BandsOf(l)
  /\ \A c \in BandsOf(l) : Occurrences(l, c, Len(l)) <= Occurrences(l, b, Len(l))

\* the index at which b's running count reaches its final count
ReachedAt(l, b) == SetMin({k \in 1..Len(l) : Occurrences(l, b, k) = Occurrences(l, b, Len(l))})

FirstSeenAt(l, b) == SetMin({k \in 1..Len(l) : l[k].ageRange = b})

NoPreference ==
  /\ Called("recommendAge")
  /\ args.userHistory # Undefined
  /\ "preferredAge" \notin DOMAIN args.userHistory[1]
  /\ args.userHistory[1].recentGames # <<>>

\* C9 as stated: with no preferredAge and a non-empty recentGames, recommendAge
\* returns a band of maximal count, and among several such bands the one whose
\* count reaches the maximum first in a pass over recentGames.
C9_FirstToReachMaxWins ==
  NoPreference
    => LET l == args.userHistory[1].recentGames
       IN  /\ IsMostCommon(l, ret.val)
           /\ \A c \in BandsOf(l) :
                IsMostCommon(l, c) => ReachedAt(l, ret.val) <= ReachedAt(l, c)

\* C9 amended: ... among several bands of maximal count it returns the one
\* that occurs first in recentGames.
C9_FirstSeenWins ==
  NoPreference
    => LET l == args.userHistory[1].recentGames
       IN  /\ IsMostCommon(l, ret.val)
           /\ \A c \in BandsOf(l) :
                IsMostCommon(l, c) => FirstSeenAt(l, ret.val) <= FirstSeenAt(l, c)

C9_Witness ==
  /\ NoPreference
  /\ LET l == args.userHistory[1].recentGames
     IN  \E c \in BandsOf(l) :
           /\ c # ret.val
           /\ IsMostCommon(l, c)
           /\ ReachedAt(l, c) < ReachedAt(l, ret.val)
           /\ FirstSeenAt(l, ret.val) < FirstSeenAt(l, c)

\* position of the item with this id in the list, 0 when it is not there
PosIn(l, id) ==
  IF \E i \in DOMAIN l : l[i].id = id
  THEN CHOOSE i \in DOMAIN l : l[i].id = id
  ELSE 0

ScoreIn(id) == local.scores[PosIn(args.games, id)].val

\* C10: getTrustRanking is stable: two items of the output with equal scores
\* are in their input order, and when the cut at limit falls inside a group of
\* equal scores the earlier input items are the ones kept.
C10_RankStable ==
  (Called("getTrustRanking") /\ ret.tag = "ok")
    => LET in == args.games
           out == ret.val
       IN  /\ \A i, j \in DOMAIN out :
                (i < j /\ ScoreIn(out[i].id) = ScoreIn(out[j].id))
                  => PosIn(in, out[i].id) < PosIn(in, out[j].id)
           /\ \A i \in DOMAIN out, k \in DOMAIN in :
                (PosIn(out, in[k].id) = 0 /\ ScoreIn(out[i].id) = ScoreIn(in[k].id))
                  => PosIn(in, out[i].id) < k

C10_Witness ==
  /\ Called("getTrustRanking")
  /\ ret.tag = "ok"
  /\ Len(args.games) = 3
  /\ args.games[1].id = "g2" /\ args.games[2].id = "g4" /\ args.games[3].id = "g1"
  /\ args.limit = 2
  /\ Len(ret.val) = 2
  /\ ret.val[1].id = "g2" /\ ret.val[2].id = "g4"
  /\ ScoreIn("g1") = ScoreIn("g2") /\ ScoreIn("g2") = ScoreIn("g4")

\* C11: for every list and every limit >= 0, getTrustRanking returns exactly
\* min(limit, number of items) items, each an item of the input, none
\* repeated, in non-increasing score order, and no omitted item has a
\* strictly higher score than an included one.
C11_RankTopLimit ==
  (Called("getTrustRanking") /\ args.limit >= 0)
    => /\ ret.tag = "ok"
       /\ LET in == args.games
              out == ret.val
          IN  /\ Len(out) = (IF args.limit < Len(in) THEN args.limit ELSE Len(in))
              /\ \A i \in DOMAIN out : PosIn(in, out[i].id) # 0
              /\ \A i, j \in DOMAIN out : i # j => out[i].id # out[j].id
              /\ \A i, j \in DOMAIN out :
                   i < j => RGe(ScoreIn(out[i].id), ScoreIn(out[j].id))
              /\ \A i \in DOMAIN out, k \in DOMAIN in :
                   PosIn(out, in[k].id) = 0 => RGe(ScoreIn(out[i].id), ScoreIn(in[k].id))

\* C12: AgeRecommendationEngine.getAgeMatchScore and the age-fit factor
\* TrustScoreEngine.getAgeMatchScore return the same value for every
\* (userAge, ageRange) with min <= max.
C12_MatchScoresAgree ==
  /\ (Called("getAgeMatchScore") /\ args.userAge # Undefined)
       => ret.val = AgeRecommendationEngine_getAgeMatchScore(args.userAge[1], args.game.ageRange)
  /\ Called("AgeRecommendationEngine.getAgeMatchScore")
       => ret.val = getAgeMatchScore(NoFlagsGame(args.gameAgeRange), Some(args.userAge))

C12_Witness ==
  /\ Called("getAgeMatchScore")
  /\ args.userAge = Some(10)
  /\ args.game.ageRange = <<3, 8>>
  /\ ret.val = Rat(6, 10)

\* distance in years from the age to the band, 0 inside it
YearsOutside(age, ageRange) ==
  IF age < ageRange[1] THEN ageRange[1] - age
  ELSE IF age > ageRange[2] THEN age - ageRange[2]
  ELSE 0

\* C13: match_score is 1.0 inside the band, else 0.8 within 1 year of a
\* bound, else 0.6 within 2 years, else 0.3; the tightest band wins.
C13_MatchScoreTiers ==
  Called("AgeRecommendationEngine.getAgeMatchScore")
    => LET d == YearsOutside(args.userAge, args.gameAgeRange)
       IN  /\ d = 0 => ret.val = <<1, 1>>
           /\ d = 1 => ret.val = <<4, 5>>
           /\ d = 2 => ret.val = <<3, 5>>
           /\ d > 2 => ret.val = <<3, 10>>

C13_Witness ==
  /\ Called("AgeRecommendationEngine.getAgeMatchScore")
  /\ args.gameAgeRange = <<6, 6>>
  /\ args.userAge = 7
  /\ ret.val = <<4, 5>>

\* C14: when a user age is supplied, calculateTrustScore's result is
\* Engagement * AgeFit(userAge, ageRange) * Safety * Freshness.
C14_AgeFitIncluded ==
  (Called("calculateTrustScore(game, userAge)") /\ ret.tag = "ok")
    => ret.val = RMul(RMul(RMul(getBaseScore(args.game),
                                AgeRecommendationEngine_getAgeMatchScore(
                                  args.userAge, args.game.ageRange)),
                           getRiskLevelScore(args.game).val),
                      getFreshnessScore(args.game, args.now))

SameOutcome(a, b) == a.tag = b.tag /\ a.val = b.val

Repeated(o) == pc = "done" /\ op = o

\* C15 as stated: two calls of calculateTrustScore (and of getTrustRanking)
\* with identical inputs return the same result no matter when each is made.
C15_SameInputsSameResult ==
  (Repeated("calculateTrustScore again") \/ Repeated("getTrustRanking again"))
    => SameOutcome(ret, local.first.ret)

\* hours since lastPlayed at clock reading t, 0 when lastPlayed is absent or 0
HoursSince(game, t) ==
  IF "lastPlayed" \in DOMAIN game /\ game.lastPlayed # 0 THEN t - game.lastPlayed ELSE 0

\* at most 7 days: 1, at most 30: 2, at most 90: 3, beyond: 4
FreshnessBand(game, t) ==
  LET h == HoursSince(game, t)
  IN  IF h <= 168 THEN 1 ELSE IF h <= 720 THEN 2 ELSE IF h <= 2160 THEN 3 ELSE 4

\* C15 amended: ... return the same result whenever, for every item, the time
\* since lastPlayed is in the same freshness band at both calls.
C15_SameBandSameResult ==
  /\ (Repeated("calculateTrustScore again")
        /\ FreshnessBand(args.game, local.first.now) = FreshnessBand(args.game, args.now))
       => SameOutcome(ret, local.first.ret)
  /\ (Repeated("getTrustRanking again")
        /\ \A i \in DOMAIN args.games :
             FreshnessBand(args.games[i], local.first.now)
               = FreshnessBand(args.games[i], args.now))
       => SameOutcome(ret, local.first.ret)

C15_Witness ==
  /\ Repeated("calculateTrustScore again")
  /\ "lastPlayed" \in DOMAIN args.game
  /\ HoursSince(args.game, local.first.now) = 144
  /\ HoursSince(args.game, args.now) = 168
  /\ ret.tag = "ok"
  /\ ret = local.first.ret

\* value of a string of digits, digit by digit from the right
DecimalValue(str) ==
  LET pow[k \in 0..Len(str)] == IF k = 0 THEN 1 ELSE 10 * pow[k - 1]
      sum[k \in 0..Len(str)] ==
        IF k = 0 THEN 0
        ELSE sum[k - 1] + DigitValue(str[Len(str) - k + 1]) * pow[k - 1]
  IN  sum[Len(str)]

Before(str, i) == SubSeq(str, 1, i - 1)

After(str, i) == SubSeq(str, i + 1, Len(str))

DashedKey(str) ==
  \E i \in DOMAIN str : str[i] = "-" /\ AllDigits(Before(str, i)) /\ AllDigits(After(str, i))

PlusKey(str) ==
  Len(str) > 0 /\ str[Len(str)] = "+" /\ AllDigits(Before(str, Len(str)))

\* C16: parseAgeRange returns (min,max) for exactly digits '-' digits, (n,99)
\* for exactly digits '+', and null, without throwing, for every other string.
C16_ParseAgeKey ==
  Called("parseAgeRange")
    => LET str == args.ageStr
       IN  /\ ret.tag = "ok"
           /\ \A i \in DOMAIN str :
                (str[i] = "-" /\ AllDigits(Before(str, i)) /\ AllDigits(After(str, i)))
                  => ret.val = Some(<<DecimalValue(Before(str, i)), DecimalValue(After(str, i))>>)
           /\ PlusKey(str) => ret.val = Some(<<DecimalValue(Before(str, Len(str))), 99>>)
           /\ (~DashedKey(str) /\ ~PlusKey(str)) => ret.val = Undefined

C16_Witness ==
  /\ Called("parseAgeRange")
  /\ args.ageStr = <<"9", "-", "1", "2">>
  /\ ret.val = Some(<<9, 12>>)

\* C17: recommendByChildAge maps ages up to 6 (also below 3) to (3,6), 7 to 9
\* to (6,9), 10 to 12 to (9,12) and 13 and above to (12,99).
C17_ChildAgeBands ==
  Called("recommendByChildAge")
    => LET a == args.childAge
       IN  /\ a <= 6 => ret.val = <<3, 6>>
           /\ (7 <= a /\ a <= 9) => ret.val = <<6, 9>>
           /\ (10 <= a /\ a <= 12) => ret.val = <<9, 12>>
           /\ a >= 13 => ret.val = <<12, 99>>

C17_Witness ==
  Called("recommendByChildAge") /\ args.childAge = 9 /\ ret.val = <<6, 9>>

\* k tenths written with one decimal
Tenths(k) ==
  LET m == Abs(k)
      digits == NumStr(m \div 10) \o <<".">> \o NumStr(m % 10)
  IN  IF k < 0 THEN <<"-">> \o digits ELSE digits

\* C18: getParentRatingDisplay shows the exact rating and the count when
\* totalRatings >= 156, the range rating-0.3 to rating+0.3 when
\* 20 <= totalRatings < 156, and the fixed new-content text, with no number,
\* when totalRatings < 20.
C18_RatingDisplay ==
  Called("getParentRatingDisplay")
    => LET k == (10 * args.rating[1]) \div args.rating[2]
           n == args.totalRatings
       IN  /\ n >= 156
                => ret.val = Tenths(k) \o <<"fen", " ", "(">> \o NumStr(n)
                               \o <<"tiao jiazhang pingjia", ")">>
           /\ (20 <= n /\ n < 156)
                => ret.val = Tenths(k - 3) \o <<"-">> \o Tenths(k + 3) \o <<"fen">>
           /\ n < 20
                => (ret.val = <<"xin neirong">>
                      /\ \A i \in DOMAIN ret.val : ~IsDigit(ret.val[i]))

C18_Witness ==
  /\ Called("getParentRatingDisplay")
  /\ args.rating = <<9, 2>>
  /\ args.totalRatings = 20
  /\ ret.val = <<"4", ".", "2", "-", "4", ".", "8", "fen">>

RecentGamesOf(userHistory) ==
  IF userHistory = Undefined THEN <<>> ELSE userHistory[1].recentGames

\* C19: after any sequence of recordAgeSelection calls from any history,
\* recentGames holds at most 50 records, the record just inserted is first,
\* the others keep their order, and the records evicted are the last ones.
C19_BoundedNewestFirst ==
  Called("recordAgeSelection")
    => LET old == RecentGamesOf(args.userHistory)
           new == ret.val.recentGames
       IN  /\ Len(new) <= 50
           /\ Len(new) = (IF Len(old) + 1 < 50 THEN Len(old) + 1 ELSE 50)
           /\ new[1].ageRange = args.ageRange
           /\ new[1].playedAt = args.now
           /\ \A i \in 2..Len(new) : new[i] = old[i - 1]

C19_Witness ==
  /\ Called("recordAgeSelection")
  /\ local.inserts = 3
  /\ Len(RecentGamesOf(args.userHistory)) = 50
  /\ Len(ret.val.recentGames) = 50
  /\ RecentGamesOf(args.userHistory)[50].playedAt = 2
  /\ ret.val.recentGames[50].playedAt = 3
  /\ ret.val.recentGames[2].playedAt = 101

\* C20: the score calculateTrustScore returns is at most each of its four
\* factors: engagement, age fit, safety and freshness.
C20_ScoreBelowEachFactor ==
  (Called("calculateTrustScore") /\ ret.tag = "ok")
    => /\ RLe(ret.val, getBaseScore(args.game))
       /\ RLe(ret.val, getAgeMatchScore(args.game, Undefined))
       /\ RLe(ret.val, getRiskLevelScore(args.game).val)
       /\ RLe(ret.val, getFreshnessScore(args.game, args.now))

\* the multiplier of a flag, in tenths
FlagTenths(set, tenths) == IF set THEN tenths ELSE 10

HoursSinceLastPlayed == args.now - args.game.lastPlayed

FreshnessOfAge(hours) ==
  IF hours <= 7 * 24 THEN RInt(1)
  ELSE IF hours <= 30 * 24 THEN Rat(9, 10)
  ELSE IF hours <= 90 * 24 THEN Rat(8, 10)
  ELSE Rat(7, 10)

\* C22 as stated: the freshness factor is 1.0 when lastUpdated is absent or
\* at most 7 days before now, 0.9 up to 30 days, 0.8 up to 90 days and 0.7
\* beyond, for every lastUpdated timestamp.
C22_FreshnessBandsAsStated ==
  Called("getFreshnessScore")
    => /\ "lastPlayed" \notin DOMAIN args.game => ret.val = RInt(1)
       /\ "lastPlayed" \in DOMAIN args.game
            => ret.val = FreshnessOfAge(HoursSinceLastPlayed)

\* C22: the freshness factor is 1.0 when lastUpdated is absent or is the
\* timestamp 0, and otherwise 1.0 up to 7 days before now, 0.9 up to 30 days,
\* 0.8 up to 90 days and 0.7 beyond; exactly 7, 30 and 90 days fall in the
\* higher-valued band and the factor is in [0.7,1].
C22_FreshnessBands ==
  Called("getFreshnessScore")
    => /\ "lastPlayed" \notin DOMAIN args.game => ret.val = RInt(1)
       /\ ("lastPlayed" \in DOMAIN args.game /\ args.game.lastPlayed = 0)
            => ret.val = RInt(1)
       /\ ("lastPlayed" \in DOMAIN args.game /\ args.game.lastPlayed # 0)
            => ret.val = FreshnessOfAge(HoursSinceLastPlayed)
       /\ RLe(Rat(7, 10), ret.val)
       /\ RLe(ret.val, RInt(1))

C22_Witness ==
  /\ Called("getFreshnessScore")
  /\ "lastPlayed" \in DOMAIN args.game
  /\ HoursSinceLastPlayed = 30 * 24
  /\ ret.val = <<9, 10>>

\* C23: every band parseAgeRange returns has min <= max.
C23_ParsedBandOrdered ==
  (Called("parseAgeRange") /\ ret.val # Undefined)
    => ret.val[1][1] <= ret.val[1][2]

\* C24: getTrustRanking and recordAgeSelection write nothing they were given:
\* after the call every array and object that existed before it, the list
\* and the history passed in among them, is as it was.
C24_InputsUnchanged ==
  (Called("getTrustRanking") \/ Called("recordAgeSelection"))
    => \A ref \in DOMAIN local.before : local.heap[ref] = local.before[ref]

C24_Witness ==
  /\ Called("getTrustRanking")
  /\ ret.tag = "ok"
  /\ Len(local.before[args.games]) >= 2
  /\ Len(local.heap[ret.val]) >= 2
  /\ local.heap[ret.val][1] # local.before[args.games][1]
  /\ local.heap[args.games] = local.before[args.games]

\* C25: recommendAge applied to the history recordAgeSelection(h, a) returned
\* gives a, for every h and after every sequence of recordAgeSelection calls.
C25_RecommendsLastSelection ==
  Called("recommendAge") => ret.val = args.selected

C25_Witness ==
  /\ Called("recommendAge")
  /\ local.inserts = 3
  /\ ret.val = <<12, 99>>
  /\ Len(args.userHistory[1].recentGames) = 50
  /\ \A i \in 2..50 : args.userHistory[1].recentGames[i].ageRange # <<12, 99>>

\* the canonical keys that parse to the band
KeysOf(ageRange) == {key \in DOMAIN AGE_GROUPS : parseAgeRange(key) = Some(ageRange)}

\* C26: for each key of AGE_GROUPS, the label and the colour looked up for
\* the band parseAgeRange(key) returns are that key's, and the selector shows
\* the key as selected after it has been chosen.
C26_CanonicalKeysRoundTrip ==
  /\ Called("getAgeLabel")
       => \A key \in KeysOf(args.ageRange) : ret.val = AGE_GROUPS[key].label
  /\ Called("getAgeColor")
       => \A key \in KeysOf(args.ageRange) : ret.val = AGE_GROUPS[key].color
  /\ Called("handleAgeSelect") => ret.val.isSelected[args.ageKey]

\* C27: every feedback submitted since the queue was last cleared is in the
\* stored queue, pending or synced.
C27_NoFeedbackLost ==
  \A id \in feedback.submitted : id \in IdsOf(feedback.queue)

\* C28: a feedback that was in a batch whose POST succeeded is in no other
\* batch, neither one that succeeded nor one in flight.
C28_DeliveredOnce ==
  \A i \in DOMAIN feedback.posted :
    /\ \A j \in DOMAIN feedback.posted : i # j => feedback.posted[i] \cap feedback.posted[j] = {}
    /\ \A k \in DOMAIN feedback.syncs :
         feedback.posted[i] \cap IdsOf(feedback.syncs[k].pendingFeedback) = {}

\* C29: a game added through FavoriteManager.addToFavorites is in the
\* persisted favourites list until it is removed or the list is cleared.
C29_FavoritesKept ==
  \A gameId \in favorites.kept : Includes(favorites.stored, gameId)

\* C30: the game frame is loaded only after the alert was confirmed in this
\* session or a remembered confirmation of the same game less than 24 hours
\* old was found; it is not loaded while the alert is showing or after a
\* cancel; a confirmation is stored only if the remember choice was ticked.
C30_LoadedOnlyAfterConfirm ==
  /\ GameLoaded => (experience.confirmed \/ experience.remembered)
  /\ AlertShowing => ~GameLoaded
  /\ experience.cancelled => ~GameLoaded
  /\ \A g \in GameIds : experience.seen[g] # 0 => g \in experience.ticked

====
